---- MODULE Spec2Model ----
(***************************************************************************)
(* A model of the orchestration code of PyPOTS' SAITS imputer              *)
(* (pypots/imputation/saits/model.py) and of the forward dispatch of       *)
(* _USGAN (pypots/imputation/usgan/core.py).                               *)
(*                                                                         *)
(* Tensors are abstracted to sequences with one entry per sample, the      *)
(* weights of a network to a version number, and the numerical result of   *)
(* a network on a sample to an uninterpreted term naming the weights, the  *)
(* sample and the flags it was computed with.                              *)
(***************************************************************************)
EXTENDS Integers, Sequences, FiniteSets, TLC

\* ------------------------------------------------------------------ bounds
MaxDModel == 6     \* d_model is drawn from 1..MaxDModel
MaxHeads == 3      \* n_heads and d_k are drawn from 1..MaxHeads
MaxBatch == 2      \* batch_size is drawn from 1..MaxBatch
MaxSamples == 3    \* a test set holds 0..MaxSamples samples
MaxParam == 1      \* the weights of a network are a version in 0..MaxParam

Samples == {"a", "b"}
Params == 0 .. MaxParam

RECURSIVE SeqsUpTo(_)
SeqsUpTo(n) ==
    IF n = 0 THEN {<<>>}
    ELSE LET S == SeqsUpTo(n - 1)
         IN  S \cup {Append(s, x) : s \in {t \in S : Len(t) = n - 1}, x \in Samples}

TestSets == {[X |-> xs] : xs \in SeqsUpTo(MaxSamples)}

\* val_set of fit: None, or a dict / file with the given keys
NoneVal == [given |-> FALSE, keys |-> {}]
ValSets == {NoneVal,
            [given |-> TRUE, keys |-> {"X"}],
            [given |-> TRUE, keys |-> {"X", "X_ori"}]}

TrainingObjects == {"generator", "discriminator", "classifier"}

VARIABLES
    ctor_args,        \* the arguments the SAITS constructor was called with
    saits,            \* the SAITS instance's own attributes
    model,            \* self.model, the inner _SAITS module
    best_model_dict,  \* self.best_model_dict
    checkpoint,       \* what the automatic save last wrote
    pc,               \* position inside SAITS.fit ("idle" outside it)
    fit_val_set,      \* val_set of the running / last fit call
    val_loader,       \* fit's local val_loader
    trace,            \* the calls the running / last fit has made, in order
    usgan,            \* the _USGAN instance (its backbone)
    last              \* the last finished call: its arguments and outcome

vars == <<ctor_args, saits, model, best_model_dict, checkpoint, pc,
          fit_val_set, val_loader, trace, usgan, last>>

\* a state dict of the network (its weights), or None
NoDict == [present |-> FALSE, params |-> 0]
StateDict(p) == [present |-> TRUE, params |-> p]

\* ------------------------------------------------------- SAITS.__init__
\* the constructor without the reset of d_model
SAITS_init_no_reset(d_model, n_heads, d_k, batch_size, saving) ==
    [self  |-> [d_model |-> d_model, n_heads |-> n_heads, d_k |-> d_k,
                batch_size |-> batch_size, saving |-> saving],
     model |-> [d_model |-> d_model, n_heads |-> n_heads, d_k |-> d_k,
                params |-> 0, training |-> TRUE]]

\* saving stands for "saving_path is not None and model_saving_strategy is not
\* None"; a fresh nn.Module is in training mode
SAITS_init(d_model, n_heads, d_k, batch_size, saving) ==
    LET dm == IF d_model # n_heads * d_k THEN n_heads * d_k ELSE d_model
        self == [d_model |-> dm, n_heads |-> n_heads, d_k |-> d_k,
                 batch_size |-> batch_size, saving |-> saving]
    IN  [self  |-> self,
         model |-> [d_model |-> self.d_model, n_heads |-> self.n_heads,
                    d_k |-> self.d_k, params |-> 0, training |-> TRUE]]

\* the state right after SAITS(d_model=..., n_heads=..., d_k=..., ...)
Constructed(d_model, n_heads, d_k, batch_size, saving) ==
    LET o == SAITS_init(d_model, n_heads, d_k, batch_size, saving)
    IN  /\ ctor_args = [d_model |-> d_model, n_heads |-> n_heads, d_k |-> d_k]
        /\ saits = o.self
        /\ model = o.model
        /\ best_model_dict = NoDict
        /\ checkpoint = NoDict
        /\ pc = "idle"
        /\ fit_val_set = NoneVal
        /\ val_loader = "None"
        /\ trace = <<>>
        /\ last = [op |-> "__init__"]

\* an instance with consistent dimensions, any batch size, saving on or off
Init ==
    /\ \E batch_size \in 1 .. MaxBatch, saving \in BOOLEAN :
        Constructed(MaxHeads * MaxHeads, MaxHeads, MaxHeads, batch_size, saving)
    /\ usgan = [backbone |-> [params |-> 0]]

\* ------------------------------------------------------------- SAITS.fit
check_X_ori_in_val_set(val_set) == "X_ori" \in val_set.keys

\* fit without the check of val_set
fit_call_unchecked ==
    /\ pc = "idle"
    /\ \E val_set \in ValSets :
        /\ fit_val_set' = val_set
        /\ val_loader' = IF val_set.given THEN "DataLoader" ELSE "None"
        /\ trace' = <<>>
        /\ pc' = "train"
        /\ UNCHANGED <<last, usgan, ctor_args, saits, model, best_model_dict, checkpoint>>

\* fit, Step 1 (lines 251-273): wrap the data, validate val_set
fit_call ==
    /\ pc = "idle"
    /\ \E val_set \in ValSets :
        /\ fit_val_set' = val_set
        /\ trace' = <<>>
        /\ IF val_set.given /\ ~check_X_ori_in_val_set(val_set)
           THEN /\ pc' = "idle"
                /\ val_loader' = "None"
                /\ last' = [op |-> "fit", raised |-> "ValueError",
                            pre |-> [model |-> model, checkpoint |-> checkpoint,
                                     best_model_dict |-> best_model_dict]]
           ELSE /\ pc' = "train"
                /\ val_loader' = IF val_set.given THEN "DataLoader" ELSE "None"
                /\ last' = last
        /\ UNCHANGED <<usgan, ctor_args, saits, model, best_model_dict, checkpoint>>

\* BaseNNImputer._train_model: runs the epochs, leaves the network in training
\* mode with the weights of the last epoch and records the best ones
train_model ==
    /\ pc = "train"
    /\ \E final \in Params, best \in Params :
        /\ model' = [model EXCEPT !.params = final, !.training = TRUE]
        /\ best_model_dict' = StateDict(best)
        /\ trace' = Append(trace, [call |-> "_train_model", val_loader |-> val_loader,
                                   params |-> final])
    /\ pc' = "load"
    /\ UNCHANGED <<usgan, ctor_args, saits, checkpoint, fit_val_set, val_loader, last>>

\* BaseNNImputer._train_model raising (a loss that is NaN, an interrupted run)
train_model_raises ==
    /\ pc = "train"
    /\ \E final \in Params :
        /\ model' = [model EXCEPT !.params = final, !.training = TRUE]
        /\ trace' = Append(trace, [call |-> "_train_model", val_loader |-> val_loader,
                                   params |-> final])
    /\ pc' = "idle"
    /\ last' = [op |-> "fit", raised |-> "RuntimeError",
                pre |-> [model |-> model, checkpoint |-> checkpoint,
                         best_model_dict |-> best_model_dict]]
    /\ UNCHANGED <<usgan, ctor_args, saits, checkpoint, fit_val_set, val_loader,
                   best_model_dict>>

\* fit with the load of the best weights left out
fit_load_skipped ==
    /\ pc = "load"
    /\ trace' = Append(trace, [call |-> "load_state_dict", params |-> model.params])
    /\ pc' = "eval"
    /\ UNCHANGED <<usgan, ctor_args, saits, model, best_model_dict, checkpoint,
                   fit_val_set, val_loader, last>>

\* line 277: self.model.load_state_dict(self.best_model_dict)
fit_load_state_dict ==
    /\ pc = "load"
    /\ model' = [model EXCEPT !.params = best_model_dict.params]
    /\ trace' = Append(trace, [call |-> "load_state_dict",
                               params |-> best_model_dict.params])
    /\ pc' = "eval"
    /\ UNCHANGED <<usgan, ctor_args, saits, best_model_dict, checkpoint,
                   fit_val_set, val_loader, last>>

\* line 278: self.model.eval()
fit_eval ==
    /\ pc = "eval"
    /\ model' = [model EXCEPT !.training = FALSE]
    /\ trace' = Append(trace, [call |-> "eval"])
    /\ pc' = "save"
    /\ UNCHANGED <<usgan, ctor_args, saits, best_model_dict, checkpoint,
                   fit_val_set, val_loader, last>>

\* BaseNNImputer._auto_save_model_if_necessary: with confirm_saving the weights
\* of self.model are written when saving is configured
auto_save_model_if_necessary(confirm_saving) ==
    IF saits.saving /\ confirm_saving THEN StateDict(model.params) ELSE checkpoint

\* line 281: self._auto_save_model_if_necessary(confirm_saving=True); fit returns
fit_save ==
    /\ pc = "save"
    /\ checkpoint' = auto_save_model_if_necessary(TRUE)
    /\ trace' = Append(trace, [call |-> "_auto_save_model_if_necessary",
                               confirm_saving |-> TRUE, params |-> model.params])
    /\ pc' = "idle"
    /\ last' = [op |-> "fit", raised |-> "no"]
    /\ UNCHANGED <<usgan, ctor_args, saits, model, best_model_dict,
                   fit_val_set, val_loader>>

\* --------------------------------------------------------- SAITS.predict
Min(a, b) == IF a < b THEN a ELSE b

\* BaseDataset(test_set, return_X_ori=False, return_labels=False): item i is
\* (index, X[i], missing mask of X[i])
BaseDataset(test_set) ==
    [i \in 1 .. Len(test_set.X) |->
        [indices |-> i, X |-> test_set.X[i], missing_mask |-> <<"mask", test_set.X[i]>>]]

\* a loader that drops the last, incomplete batch
DataLoader_drop_last(dataset, batch_size) ==
    [k \in 1 .. (Len(dataset) \div batch_size) |->
        LET lo == (k - 1) * batch_size + 1
            hi == k * batch_size
        IN  [indices      |-> [j \in 1 .. (hi - lo + 1) |-> dataset[lo + j - 1].indices],
             X            |-> [j \in 1 .. (hi - lo + 1) |-> dataset[lo + j - 1].X],
             missing_mask |-> [j \in 1 .. (hi - lo + 1) |-> dataset[lo + j - 1].missing_mask]]]

\* DataLoader(dataset, batch_size=batch_size, shuffle=False): consecutive slices
\* of batch_size items in dataset order, the last one possibly shorter
DataLoader(dataset, batch_size) ==
    [k \in 1 .. ((Len(dataset) + batch_size - 1) \div batch_size) |->
        LET lo == (k - 1) * batch_size + 1
            hi == Min(k * batch_size, Len(dataset))
        IN  [indices      |-> [j \in 1 .. (hi - lo + 1) |-> dataset[lo + j - 1].indices],
             X            |-> [j \in 1 .. (hi - lo + 1) |-> dataset[lo + j - 1].X],
             missing_mask |-> [j \in 1 .. (hi - lo + 1) |-> dataset[lo + j - 1].missing_mask]]]

\* lines 236-243
assemble_input_for_testing(data) ==
    [X |-> data.X, missing_mask |-> data.missing_mask]

\* what the network with weights params computes for one sample: dropout is
\* active exactly when the module is in training mode
Term(kind, m, x, mask, diagonal_attention_mask) ==
    [kind |-> kind, params |-> m.params, x |-> x, mask |-> mask,
     diagonal_attention_mask |-> diagonal_attention_mask, dropout |-> m.training]

\* _SAITS.forward(inputs, diagonal_attention_mask, training=False): one row per
\* sample of the batch in each output
SAITS_forward(m, inputs, diagonal_attention_mask, training) ==
    LET rows(kind) == [i \in 1 .. Len(inputs.X) |->
                         Term(kind, m, inputs.X[i], inputs.missing_mask[i],
                              diagonal_attention_mask)]
    IN  [imputed_data             |-> rows("imputed_data"),
         first_DMSA_attn_weights  |-> rows("first_DMSA_attn_weights"),
         second_DMSA_attn_weights |-> rows("second_DMSA_attn_weights"),
         combining_weights        |-> rows("combining_weights")]

\* torch.cat / np.concatenate along the first axis
RECURSIVE Cat(_)
Cat(chunks) ==
    IF Len(chunks) = 0 THEN <<>> ELSE Head(chunks) \o Cat(Tail(chunks))

\* predict that reports the latent variables whether asked or not
predict_always_latent(m, batch_size, test_set, diagonal_attention_mask, return_latent_vars) ==
    LET m1 == [m EXCEPT !.training = FALSE]
        test_loader == DataLoader(BaseDataset(test_set), batch_size)
        results == [k \in 1 .. Len(test_loader) |->
                      SAITS_forward(m1, assemble_input_for_testing(test_loader[k]),
                                    diagonal_attention_mask, FALSE)]
        col(key) == [k \in 1 .. Len(test_loader) |-> results[k][key]]
    IN  [model |-> m1, raised |-> Len(test_loader) = 0, calls |-> <<>>,
         result_dict |-> [imputation |-> Cat(col("imputed_data")),
                          latent_vars |-> [first_DMSA_attn_weights |-> Cat(col("first_DMSA_attn_weights")),
                                           second_DMSA_attn_weights |-> Cat(col("second_DMSA_attn_weights")),
                                           combining_weights |-> Cat(col("combining_weights"))]]]

\* lines 283-373. calls lists the calls of self.model.forward, each with the
\* arguments and the context (mode of the module, torch.no_grad) it was made in
predict(m, batch_size, test_set, diagonal_attention_mask, return_latent_vars) ==
    LET m1 == [m EXCEPT !.training = FALSE]
        test_loader == DataLoader(BaseDataset(test_set), batch_size)
        inputs == [k \in 1 .. Len(test_loader) |->
                     assemble_input_for_testing(test_loader[k])]
        results == [k \in 1 .. Len(test_loader) |->
                      SAITS_forward(m1, inputs[k], diagonal_attention_mask, FALSE)]
        calls == [k \in 1 .. Len(test_loader) |->
                    [inputs |-> inputs[k],
                     diagonal_attention_mask |-> diagonal_attention_mask,
                     training |-> FALSE, module_training |-> m1.training,
                     no_grad |-> TRUE]]
        imputation_collector == [k \in 1 .. Len(test_loader) |-> results[k].imputed_data]
        first_DMSA_attn_weights_collector ==
            IF return_latent_vars
            THEN [k \in 1 .. Len(test_loader) |-> results[k].first_DMSA_attn_weights]
            ELSE <<>>
        second_DMSA_attn_weights_collector ==
            IF return_latent_vars
            THEN [k \in 1 .. Len(test_loader) |-> results[k].second_DMSA_attn_weights]
            ELSE <<>>
        combining_weights_collector ==
            IF return_latent_vars
            THEN [k \in 1 .. Len(test_loader) |-> results[k].combining_weights]
            ELSE <<>>
        imputation == Cat(imputation_collector)
    IN  IF Len(imputation_collector) = 0
        THEN \* torch.cat of an empty list raises
             [model |-> m1, raised |-> TRUE, calls |-> calls,
              result_dict |-> [raised |-> "RuntimeError"]]
        ELSE [model |-> m1, raised |-> FALSE, calls |-> calls,
              result_dict |->
                 IF return_latent_vars
                 THEN [imputation |-> imputation,
                       latent_vars |->
                          [first_DMSA_attn_weights |-> Cat(first_DMSA_attn_weights_collector),
                           second_DMSA_attn_weights |-> Cat(second_DMSA_attn_weights_collector),
                           combining_weights |-> Cat(combining_weights_collector)]]
                 ELSE [imputation |-> imputation]]

\* defaults of predict's signature, lines 287-288
predict_default_diagonal_attention_mask == TRUE
predict_default_return_latent_vars == FALSE

\* impute calling predict with the diagonal attention mask switched off
impute_other_mask(m, batch_size, X) ==
    LET r == predict(m, batch_size, X, FALSE, predict_default_return_latent_vars)
    IN  [model |-> r.model, raised |-> r.raised,
         ret |-> IF r.raised THEN <<>> ELSE r.result_dict.imputation]

\* lines 375-405: results_dict = self.predict(X, file_type=file_type);
\* return results_dict["imputation"]
impute(m, batch_size, X) ==
    LET r == predict(m, batch_size, X, predict_default_diagonal_attention_mask,
                     predict_default_return_latent_vars)
    IN  [model |-> r.model, raised |-> r.raised,
         ret |-> IF r.raised THEN <<>> ELSE r.result_dict.imputation]

Predict ==
    /\ pc = "idle"
    /\ \E test_set \in TestSets, diagonal_attention_mask \in BOOLEAN,
          return_latent_vars \in BOOLEAN :
        LET r == predict(model, saits.batch_size, test_set,
                         diagonal_attention_mask, return_latent_vars)
        IN  /\ model' = r.model
            /\ last' = [op |-> "predict", test_set |-> test_set,
                        diagonal_attention_mask |-> diagonal_attention_mask,
                        return_latent_vars |-> return_latent_vars,
                        pre |-> model, raised |-> r.raised,
                        ret |-> r.result_dict, calls |-> r.calls]
    /\ UNCHANGED <<usgan, ctor_args, saits, best_model_dict, checkpoint, pc,
                   fit_val_set, val_loader, trace>>

Impute ==
    /\ pc = "idle"
    /\ \E X \in TestSets :
        LET r == impute(model, saits.batch_size, X)
        IN  /\ model' = r.model
            /\ last' = [op |-> "impute", test_set |-> X, pre |-> model,
                        raised |-> r.raised, ret |-> r.ret]
    /\ UNCHANGED <<usgan, ctor_args, saits, best_model_dict, checkpoint, pc,
                   fit_val_set, val_loader, trace>>

\* --------------------------------------------------------- _USGAN.forward
\* BackboneUSGAN.forward: the imputed data alone when not training, the pair
\* (imputed data, loss of the part being trained) when training
BackboneUSGAN(backbone, inputs, training_object, training) ==
    LET imputed_data == [i \in 1 .. Len(inputs.X) |->
                           [kind |-> "imputed_data", params |-> backbone.params,
                            x |-> inputs.X[i]]]
        loss == [kind |-> IF training_object = "discriminator"
                          THEN "discrimination_loss" ELSE "generation_loss",
                 params |-> backbone.params, X |-> inputs.X]
    IN  IF training THEN <<imputed_data, loss>> ELSE imputed_data

\* forward reporting a loss in every mode
USGAN_forward_always_loss(self, inputs, training_object, training) ==
    LET r == BackboneUSGAN(self.backbone, inputs, training_object, TRUE)
    IN  [raised |-> "no", results |-> [loss |-> r[2], imputed_data |-> r[1]]]

\* core.py lines 39-73
USGAN_forward(self, inputs, training_object, training) ==
    IF training_object \notin {"generator", "discriminator"}
    THEN [raised |-> "AssertionError", results |-> [raised |-> "AssertionError"]]
    ELSE IF training
         THEN IF training_object = "discriminator"
              THEN LET r == BackboneUSGAN(self.backbone, inputs, training_object, training)
                       imputed_data == r[1]
                       discrimination_loss == r[2]
                       loss == discrimination_loss
                   IN  [raised |-> "no",
                        results |-> [loss |-> loss, imputed_data |-> imputed_data]]
              ELSE LET r == BackboneUSGAN(self.backbone, inputs, training_object, training)
                       imputed_data == r[1]
                       generation_loss == r[2]
                       loss == generation_loss
                   IN  [raised |-> "no",
                        results |-> [loss |-> loss, imputed_data |-> imputed_data]]
         ELSE LET imputed_data == BackboneUSGAN(self.backbone, inputs,
                                                training_object, training)
              IN  [raised |-> "no", results |-> [imputed_data |-> imputed_data]]

Forward ==
    \E inputs \in TestSets, training_object \in TrainingObjects, training \in BOOLEAN :
        LET r == USGAN_forward(usgan, inputs, training_object, training)
        IN  /\ last' = [op |-> "forward", inputs |-> inputs,
                        training_object |-> training_object, training |-> training,
                        raised |-> r.raised, ret |-> r.results]
            /\ UNCHANGED <<usgan, ctor_args, saits, model, best_model_dict,
                           checkpoint, pc, fit_val_set, val_loader, trace>>

\* ------------------------------------------------------------ construction
\* a (new) SAITS instance is constructed from any arguments
Construct ==
    \E d_model \in 1 .. MaxDModel, n_heads \in 1 .. MaxHeads, d_k \in 1 .. MaxHeads,
       batch_size \in 1 .. MaxBatch, saving \in BOOLEAN :
        LET o == SAITS_init(d_model, n_heads, d_k, batch_size, saving)
        IN  /\ ctor_args' = [d_model |-> d_model, n_heads |-> n_heads, d_k |-> d_k]
            /\ saits' = o.self
            /\ model' = o.model
            /\ best_model_dict' = NoDict
            /\ checkpoint' = NoDict
            /\ pc' = "idle"
            /\ fit_val_set' = NoneVal
            /\ val_loader' = "None"
            /\ trace' = <<>>
            /\ last' = [op |-> "__init__"]
            /\ UNCHANGED usgan

\* ------------------------------------------------------- specifications
\* the life of one instance under fit
Next ==
    \/ fit_call
    \/ train_model
    \/ train_model_raises
    \/ fit_load_state_dict
    \/ fit_eval
    \/ fit_save

Spec == Init /\ [][Next]_vars

\* construction from every combination of arguments
InitAny ==
    /\ \E d_model \in 1 .. MaxDModel, n_heads \in 1 .. MaxHeads, d_k \in 1 .. MaxHeads,
          batch_size \in 1 .. MaxBatch, saving \in BOOLEAN :
        Constructed(d_model, n_heads, d_k, batch_size, saving)
    /\ usgan = [backbone |-> [params |-> 0]]

SpecInit == InitAny /\ [][Construct]_vars

\* predict and impute on an instance whose network is in any state fit or the
\* constructor can leave it in: any weights, training or eval mode
InitPredict ==
    \E batch_size \in 1 .. MaxBatch, p \in Params, training \in BOOLEAN :
        /\ ctor_args = [d_model |-> MaxHeads * MaxHeads, n_heads |-> MaxHeads,
                        d_k |-> MaxHeads]
        /\ saits = SAITS_init(MaxHeads * MaxHeads, MaxHeads, MaxHeads,
                              batch_size, FALSE).self
        /\ model = [SAITS_init(MaxHeads * MaxHeads, MaxHeads, MaxHeads,
                               batch_size, FALSE).model
                    EXCEPT !.params = p, !.training = training]
        /\ best_model_dict = IF training THEN NoDict ELSE StateDict(p)
        /\ checkpoint = NoDict
        /\ pc = "idle"
        /\ fit_val_set = NoneVal
        /\ val_loader = "None"
        /\ trace = <<>>
        /\ last = [op |-> "__init__"]
        /\ usgan = [backbone |-> [params |-> 0]]

NextPredict ==
    \/ Predict
    \/ Impute

SpecPredict == InitPredict /\ [][NextPredict]_vars

\* _USGAN.forward on a network with any weights
InitUSGAN ==
    /\ Constructed(MaxHeads * MaxHeads, MaxHeads, MaxHeads, MaxBatch, FALSE)
    /\ \E p \in Params : usgan = [backbone |-> [params |-> p]]

SpecUSGAN == InitUSGAN /\ [][Forward]_vars

\* ------------------------------------------------------------- properties
BadValSet(val_set) == val_set.given /\ "X_ori" \notin val_set.keys

\* C1: whatever d_model, n_heads and d_k the constructor is given, it succeeds
\* and the instance has d_model = n_heads * d_k: n_heads and d_k are the given
\* ones, d_model is the given one when that already was the product and the
\* product otherwise, and the inner _SAITS module is built with the d_model
\* stored on the instance.
C1_DModelIsProduct ==
    /\ last.op = "__init__"
    /\ saits.n_heads = ctor_args.n_heads
    /\ saits.d_k = ctor_args.d_k
    /\ saits.d_model = saits.n_heads * saits.d_k
    /\ (ctor_args.d_model = ctor_args.n_heads * ctor_args.d_k
            => saits.d_model = ctor_args.d_model)
    /\ (ctor_args.d_model # ctor_args.n_heads * ctor_args.d_k
            => saits.d_model = ctor_args.n_heads * ctor_args.d_k)
    /\ model.d_model = saits.d_model
    /\ model.n_heads = saits.n_heads
    /\ model.d_k = saits.d_k

\* a construction whose d_model had to be reset
C1_Witness ==
    /\ last.op = "__init__"
    /\ ctor_args.d_model # ctor_args.n_heads * ctor_args.d_k
    /\ saits.d_model = ctor_args.n_heads * ctor_args.d_k
    /\ saits.d_model # ctor_args.d_model

\* C2: a fit whose val_set is given and lacks 'X_ori' has raised ValueError
\* with no training step run (no call of _train_model, the network's weights
\* and mode, best_model_dict and the checkpoint as before the call); a fit
\* whose val_set is None trains with no validation loader.
C2_ValSetChecked ==
    /\ BadValSet(fit_val_set) =>
          /\ pc = "idle"
          /\ last.op = "fit"
          /\ last.raised = "ValueError"
          /\ trace = <<>>
          /\ model = last.pre.model
          /\ best_model_dict = last.pre.best_model_dict
          /\ checkpoint = last.pre.checkpoint
    /\ (~fit_val_set.given /\ pc = "train") => val_loader = "None"
    /\ (~fit_val_set.given /\ Len(trace) > 0) =>
          /\ trace[1].call = "_train_model"
          /\ trace[1].val_loader = "None"

\* a fit that raised on its val_set, on an instance an earlier fit had trained
C2_Witness ==
    /\ BadValSet(fit_val_set)
    /\ pc = "idle"
    /\ last.op = "fit"
    /\ last.raised = "ValueError"
    /\ best_model_dict.present
    /\ checkpoint.present

FitReturned == pc = "idle" /\ last.op = "fit" /\ last.raised = "no"

\* C3: a fit that returned made exactly the calls _train_model,
\* load_state_dict(best_model_dict), eval, _auto_save_model_if_necessary(
\* confirm_saving=True) in this order; the network then holds the best weights
\* and is in eval mode; and at no point of a fit is the save performed on
\* weights other than the best ones.
C3_FitOrder ==
    /\ FitReturned =>
          /\ Len(trace) = 4
          /\ trace[1].call = "_train_model"
          /\ trace[2].call = "load_state_dict"
          /\ trace[2].params = best_model_dict.params
          /\ trace[3].call = "eval"
          /\ trace[4].call = "_auto_save_model_if_necessary"
          /\ trace[4].confirm_saving
          /\ best_model_dict.present
          /\ model.params = best_model_dict.params
          /\ ~model.training
          /\ saits.saving => checkpoint = StateDict(best_model_dict.params)
    /\ \A i \in 1 .. Len(trace) :
          trace[i].call = "_auto_save_model_if_necessary" =>
              /\ i = 4
              /\ trace[i].params = best_model_dict.params

\* a fit that returned, with saving on, whose training ended on weights that
\* were not the best ones
C3_Witness ==
    /\ FitReturned
    /\ saits.saving
    /\ trace[1].params # best_model_dict.params
    /\ checkpoint = StateDict(best_model_dict.params)

PredictReturned == last.op = "predict" /\ ~last.raised

LatentKeys == {"first_DMSA_attn_weights", "second_DMSA_attn_weights", "combining_weights"}

\* C4: the dict predict returns has the key 'imputation', and the key
\* 'latent_vars' exactly when return_latent_vars is True; 'latent_vars' then has
\* exactly the three keys first_DMSA_attn_weights, second_DMSA_attn_weights and
\* combining_weights, each the concatenation, in batch order, of what forward
\* returned under that key for each batch.
C4_PredictKeys ==
    PredictReturned =>
        /\ DOMAIN last.ret = IF last.return_latent_vars
                             THEN {"imputation", "latent_vars"}
                             ELSE {"imputation"}
        /\ last.return_latent_vars =>
              /\ DOMAIN last.ret.latent_vars = LatentKeys
              /\ \A key \in LatentKeys :
                    last.ret.latent_vars[key] =
                        Cat([k \in 1 .. Len(last.calls) |->
                                SAITS_forward(model, last.calls[k].inputs,
                                              last.calls[k].diagonal_attention_mask,
                                              last.calls[k].training)[key]])

\* a predict over several batches that was asked for the latent variables
C4_Witness ==
    /\ PredictReturned
    /\ last.return_latent_vars
    /\ Len(last.calls) >= 2
    /\ Len(last.ret.latent_vars.combining_weights) = Len(last.test_set.X)

\* C5: impute(X) returns the 'imputation' entry of predict(X) with
\* diagonal_attention_mask=True and return_latent_vars=False run from the same
\* state, raises when that predict raises, and leaves the network as that
\* predict leaves it.
C5_ImputeIsPredict ==
    last.op = "impute" =>
        LET r == predict(last.pre, saits.batch_size, last.test_set, TRUE, FALSE)
        IN  /\ last.raised = r.raised
            /\ ~last.raised => last.ret = r.result_dict.imputation
            /\ model = r.model

\* an impute over several batches on a network that was in training mode
C5_Witness ==
    /\ last.op = "impute"
    /\ ~last.raised
    /\ Len(last.ret) > saits.batch_size
    /\ last.pre.training
    /\ ~model.training

CeilDiv(n, d) == (n + d - 1) \div d

\* C7: predict runs forward on consecutive batches of batch_size samples in
\* test-set order (the last batch may be shorter), each call with
\* training=False, the module in eval mode and gradients disabled; the returned
\* 'imputation' has one entry per test sample, the i-th being the network's
\* imputation of the i-th sample; the network's weights are unchanged.
C7_PredictInOrder ==
    PredictReturned =>
        LET X == last.test_set.X
            n == Len(X)
            evalModel == [last.pre EXCEPT !.training = FALSE]
        IN  /\ Len(last.ret.imputation) = n
            /\ \A i \in 1 .. n :
                  last.ret.imputation[i] =
                      Term("imputed_data", evalModel, X[i], <<"mask", X[i]>>,
                           last.diagonal_attention_mask)
            /\ model = evalModel
            /\ Len(last.calls) = CeilDiv(n, saits.batch_size)
            /\ Cat([k \in 1 .. Len(last.calls) |-> last.calls[k].inputs.X]) = X
            /\ \A k \in 1 .. Len(last.calls) :
                  /\ ~last.calls[k].training
                  /\ ~last.calls[k].module_training
                  /\ last.calls[k].no_grad
                  /\ last.calls[k].diagonal_attention_mask = last.diagonal_attention_mask
                  /\ Len(last.calls[k].inputs.X) =
                        IF k < Len(last.calls) THEN saits.batch_size
                        ELSE n - (k - 1) * saits.batch_size

\* a predict whose test set is more than one batch and not a whole number of
\* batches, with distinct samples, on a network that was in training mode
C7_Witness ==
    /\ PredictReturned
    /\ Len(last.test_set.X) > saits.batch_size
    /\ Len(last.test_set.X) % saits.batch_size # 0
    /\ last.test_set.X[1] # last.test_set.X[2]
    /\ last.pre.training
    /\ Len(last.ret.imputation) = Len(last.test_set.X)

\* C6: what _USGAN.forward returns holds 'imputed_data', and 'loss' exactly when
\* training is True; the loss is the backbone's discrimination loss for
\* training_object "discriminator" and its generation loss for "generator";
\* when training is False the backbone's single return value is the imputed
\* data.
C6_ForwardResult ==
    (last.op = "forward" /\ last.raised = "no") =>
        /\ last.training_object \in {"generator", "discriminator"}
        /\ DOMAIN last.ret = IF last.training THEN {"loss", "imputed_data"}
                             ELSE {"imputed_data"}
        /\ last.training =>
              LET b == BackboneUSGAN(usgan.backbone, last.inputs,
                                     last.training_object, TRUE)
              IN  /\ last.ret.imputed_data = b[1]
                  /\ last.ret.loss = b[2]
                  /\ last.ret.loss.kind =
                        IF last.training_object = "discriminator"
                        THEN "discrimination_loss" ELSE "generation_loss"
        /\ ~last.training =>
              last.ret.imputed_data =
                  BackboneUSGAN(usgan.backbone, last.inputs, last.training_object, FALSE)

\* a training forward of the discriminator on a batch that is not empty
C6_Witness ==
    /\ last.op = "forward"
    /\ last.raised = "no"
    /\ last.training
    /\ last.training_object = "discriminator"
    /\ Len(last.inputs.X) > 0
    /\ last.ret.loss.kind = "discrimination_loss"
====
